---------------------------- MODULE Spec2Model ----------------------------
(***************************************************************************)
(* A model of iq_fit_solver.py: the overlap test fits, the dead-region     *)
(* detector fails with its flood fill get_region_size, and the recursive   *)
(* backtracking search solve.                                              *)
(*                                                                         *)
(* A numpy 2D array is a sequence of rows, each a sequence of naturals;    *)
(* rows and columns are numbered from 1 here and from 0 in the source.     *)
(* The arrays alive at a moment are the entries of heap, and a reference   *)
(* to an array is its index in heap, so that writing through a reference   *)
(* is seen by everyone who holds it (np.copy makes a new entry).           *)
(***************************************************************************)
EXTENDS Integers, Sequences, FiniteSets, TLC

VARIABLES
    heap,      \* the numpy arrays alive, by reference
    pieces,    \* the piece list handed to solve (the active catalog)
    stack,     \* the activation records of solve, innermost last
    status,    \* "call", "running", "done" (returned) or "error" (raised)
    result,    \* the value returned by the outermost call
    ev         \* what the last step did (its arguments, copies and outcome)

vars == <<heap, pieces, stack, status, result, ev>>

(***************************************************************************)
(* Program constants                                                       *)
(***************************************************************************)
FullCount == 50
RotCount == 4
Sentinel == 3
DeadRegionLimit == 4

(***************************************************************************)
(* Bounds of the model                                                     *)
(***************************************************************************)
MaxVal == 3
MaxPieces == 2
MaxDim == 3

(***************************************************************************)
(* numpy helpers                                                           *)
(***************************************************************************)
nrows(a) == Len(a)
ncols(a) == IF Len(a) = 0 THEN 0 ELSE Len(a[1])
Cells(a) == (1..nrows(a)) \X (1..ncols(a))

count_nonzero(a) == Cardinality({rc \in Cells(a) : a[rc[1]][rc[2]] # 0})

RECURSIVE or_int(_, _)
or_int(x, y) ==
    IF x = 0 THEN y
    ELSE IF y = 0 THEN x
    ELSE (IF x % 2 = 1 \/ y % 2 = 1 THEN 1 ELSE 0) + 2 * or_int(x \div 2, y \div 2)

bitwise_or(a, b) == [r \in 1..nrows(a) |-> [c \in 1..ncols(a) |-> or_int(a[r][c], b[r][c])]]

\* board[row:row+prows, col:col+pcols], row and col counted from 0
slice(a, row, col, prows, pcols) ==
    [r \in 1..prows |-> [c \in 1..pcols |-> a[row + r][col + c]]]

\* np.rot90: a quarter turn counterclockwise
rot90(a) == [i \in 1..ncols(a) |-> [j \in 1..nrows(a) |-> a[j][ncols(a) + 1 - i]]]

(***************************************************************************)
(* fits                                                                    *)
(***************************************************************************)
\* a variant that only bounds the union count from above
fits_always(board, piece) ==
    count_nonzero(bitwise_or(board, piece)) <= count_nonzero(board) + count_nonzero(piece)

fits(board, piece) ==
    LET board_count == count_nonzero(board)
        piece_count == count_nonzero(piece)
        comb_count == count_nonzero(bitwise_or(board, piece))
    IN  comb_count = board_count + piece_count

(***************************************************************************)
(* References: np.copy allocates a new array holding the same cells        *)
(***************************************************************************)
\* a variant that hands back the same array instead of a copy
np_copy_alias(h, id) == [h |-> h, id |-> id]

np_copy(h, id) == [h |-> Append(h, h[id]), id |-> Len(h) + 1]

(***************************************************************************)
(* get_region_size: depth-first flood fill from (row, col), counted from   *)
(* 0, that writes the sentinel into every cell it counts.  The result is   *)
(* the array after the call (b) and the returned size (n).                 *)
(***************************************************************************)
RECURSIVE get_region_size(_, _, _)
get_region_size(board, row, col) ==
    IF board[row + 1][col + 1] # 0 THEN [b |-> board, n |-> 0]
    ELSE
        LET marked == [board EXCEPT ![row + 1][col + 1] = Sentinel]
            brows == nrows(board)
            bcols == ncols(board)
            up == IF (row - 1) >= 0
                    THEN get_region_size(marked, row - 1, col)
                    ELSE [b |-> marked, n |-> 0]
            down == IF (row + 1) < brows
                    THEN get_region_size(up.b, row + 1, col)
                    ELSE [b |-> up.b, n |-> 0]
            left == IF (col - 1) >= 0
                    THEN get_region_size(down.b, row, col - 1)
                    ELSE [b |-> down.b, n |-> 0]
            right == IF (col + 1) < bcols
                    THEN get_region_size(left.b, row, col + 1)
                    ELSE [b |-> left.b, n |-> 0]
        IN  [b |-> right.b, n |-> 1 + up.n + down.n + left.n + right.n]

(***************************************************************************)
(* fails: the row-major scan of the copy, from cell number k (counted from *)
(* 0), returning at the first region smaller than the limit.               *)
(***************************************************************************)
RECURSIVE fails_scan(_, _)
\* a variant whose first region test is <= instead of <
fails_scan_le(new_board, k) ==
    LET bcols == ncols(new_board)
        row == k \div bcols
        col == k % bcols
    IN  IF k >= nrows(new_board) * bcols THEN [b |-> new_board, ret |-> FALSE]
        ELSE IF new_board[row + 1][col + 1] = 0
        THEN LET region == get_region_size(new_board, row, col)
             IN  IF region.n <= DeadRegionLimit
                 THEN [b |-> region.b, ret |-> TRUE]
                 ELSE fails_scan(region.b, k + 1)
        ELSE fails_scan(new_board, k + 1)

fails_scan(new_board, k) ==
    LET bcols == ncols(new_board)
        row == k \div bcols
        col == k % bcols
    IN  IF k >= nrows(new_board) * bcols THEN [b |-> new_board, ret |-> FALSE]
        ELSE IF new_board[row + 1][col + 1] = 0
        THEN LET region == get_region_size(new_board, row, col)
             IN  IF region.n < DeadRegionLimit
                 THEN [b |-> region.b, ret |-> TRUE]
                 ELSE fails_scan(region.b, k + 1)
        ELSE fails_scan(new_board, k + 1)

\* fails(board) on the array referenced by id: the heap when it returns, the
\* reference of its local new_board, and the returned value
fails(h, id) ==
    LET cp == np_copy(h, id)
        scan == fails_scan(cp.h[cp.id], 0)
    IN  [h |-> [cp.h EXCEPT ![cp.id] = scan.b], new_board |-> cp.id, ret |-> scan.ret]

(***************************************************************************)
(* The piece table.  An entry is a list of two base shapes whose nonzero    *)
(* cells hold the piece's id.  Piece1 and Piece3 are the game's pieces 1   *)
(* and 3; Square and Domino are shapes a user adds to the table, each      *)
(* twice.                                                                  *)
(***************************************************************************)
Piece1 == << << <<1, 0, 1>>,
                <<1, 1, 1>> >>,
             << <<1, 1, 1>>,
                <<1, 0, 0>> >> >>

Piece3 == << << <<3, 3, 3, 3>>,
                <<0, 0, 0, 3>> >>,
             << <<3, 3, 3, 3>>,
                <<0, 0, 3, 3>> >> >>

Square == << << <<11, 11>>,
                <<11, 11>> >>,
             << <<11, 11>>,
                <<11, 11>> >> >>

Domino == << << <<12, 12>> >>,
             << <<12, 12>> >> >>

PIECES == <<Piece1, Square, Square, Domino, Domino>>

\* the sub-lists of the table, in table order, of at most MaxPieces entries
RECURSIVE Pick(_, _)
Pick(keep, i) ==
    IF i > Len(PIECES) THEN <<>>
    ELSE (IF i \in keep THEN <<PIECES[i]>> ELSE <<>>) \o Pick(keep, i + 1)

PieceLists ==
    {Pick(keep, 1) : keep \in {k \in SUBSET (1..Len(PIECES)) : Cardinality(k) <= MaxPieces}}

(***************************************************************************)
(* Boards: every cell holds a piece placed beforehand, except some cells   *)
(* of the top-left window that are empty.                                  *)
(***************************************************************************)
BoardWith(brows, bcols, empty) ==
    [r \in 1..brows |-> [c \in 1..bcols |-> IF <<r, c>> \in empty THEN 0 ELSE 9]]

Window(brows, bcols) ==
    {rc \in (1..brows) \X (1..bcols) : rc[1] <= 2 /\ rc[2] <= 3}

BoardShapes == {<<5, 10>>, <<2, 4>>, <<5, 11>>}

Boards ==
    UNION {{BoardWith(s[1], s[2], e) :
               e \in SUBSET Window(s[1], s[2])} :
           s \in BoardShapes}

\* small arrays of equal shape over 0..MaxVal, for fits
Grids(r, c) == [1..r -> [1..c -> 0..MaxVal]]

\* small boards of every shape up to MaxDim x MaxDim, for fails
SmallBoards ==
    UNION {[1..r -> [1..c -> {0, 9}]] : r \in 1..MaxDim, c \in 1..MaxDim}

NoEvent == [op |-> "none"]

(***************************************************************************)
(* fits called on two arrays of the same shape                             *)
(***************************************************************************)
InitFits ==
    /\ \E r \in 1..2, c \in 1..2 : \E a \in Grids(r, c), b \in Grids(r, c) : heap = <<a, b>>
    /\ pieces = <<>>
    /\ stack = <<>>
    /\ status = "call"
    /\ result = "none"
    /\ ev = NoEvent

FitsCall ==
    /\ status = "call"
    /\ status' = "done"
    /\ result' = fits(heap[1], heap[2])
    /\ ev' = [op |-> "fits", board |-> heap[1], piece |-> heap[2]]
    /\ UNCHANGED <<heap, pieces, stack>>

SpecFits == InitFits /\ [][FitsCall]_vars

(***************************************************************************)
(* fails called on a board                                                 *)
(***************************************************************************)
InitFails ==
    /\ \E b \in SmallBoards : heap = <<b>>
    /\ pieces \in {<<Piece1>>, <<Piece3>>, <<Piece1, Piece3>>}
    /\ stack = <<>>
    /\ status = "call"
    /\ result = "none"
    /\ ev = NoEvent

FailsCall ==
    /\ status = "call"
    /\ LET f == fails(heap, 1)
       IN  /\ result' = f.ret
           /\ ev' = [op |-> "fails", board |-> heap[1], new_board |-> f.h[f.new_board]]
           \* new_board dies with the call; the caller's array stays
           /\ heap' = <<f.h[1]>>
    /\ status' = "done"
    /\ UNCHANGED <<pieces, stack>>

SpecFails == InitFails /\ [][FailsCall]_vars

(***************************************************************************)
(* solve.  An activation record holds the reference of its board, its      *)
(* depth, where it is (pc: "entry" before the terminal test, "loop" in the *)
(* loops, "fit" where fits was true, "end" after the loops), the loop      *)
(* iteration it is at (at: base shape, rotation count, row, col), and      *)
(* retval.                                                                 *)
(***************************************************************************)
RECURSIVE Orient(_, _)
\* the value of the loop variable piece after rot executions of line 243
Orient(shape, rot) == IF rot = 0 THEN shape ELSE rot90(Orient(shape, rot - 1))

\* new_board[row:row+prows, col:col+pcols] = piece, overwriting the region
assign_into(board, row, col, piece) ==
    [r \in 1..nrows(board) |-> [c \in 1..ncols(board) |->
        IF (r - row) \in 1..nrows(piece) /\ (c - col) \in 1..ncols(piece)
        THEN piece[r - row][c - col]
        ELSE board[r][c]]]

\* new_board[row:row+prows, col:col+pcols] |= piece
or_into(board, row, col, piece) ==
    [r \in 1..nrows(board) |-> [c \in 1..ncols(board) |->
        IF (r - row) \in 1..nrows(piece) /\ (c - col) \in 1..ncols(piece)
        THEN or_int(board[r][c], piece[r - row][c - col])
        ELSE board[r][c]]]

\* loop order: c comes before d
Before(c, d) ==
    \/ c[1] < d[1]
    \/ c[1] = d[1] /\ c[2] < d[2]
    \/ c[1] = d[1] /\ c[2] = d[2] /\ c[3] < d[3]
    \/ c[1] = d[1] /\ c[2] = d[2] /\ c[3] = d[3] /\ c[4] < d[4]

\* the iterations of the four nested loops (base shape, rotation count, row,
\* col) after the iteration `at` at which the rotated piece fits the board
Fitting(board, shapes, at) ==
    UNION {
        LET piece == Orient(shapes[pr[1]], pr[2])
            prows == nrows(piece)
            pcols == ncols(piece)
        IN  {c \in {<<pr[1], pr[2], row, col>> :
                        row \in 0..(nrows(board) - prows),
                        col \in 0..(ncols(board) - pcols)} :
                /\ Before(at, c)
                /\ fits(slice(board, c[3], c[4], prows, pcols), piece)} :
        pr \in {x \in (1..Len(shapes)) \X (0..(RotCount - 1)) :
                    ~Before(<<x[1], x[2], 0, 0>>, <<at[1], at[2], 0, 0>>)}}

Top == stack[Len(stack)]

NewFrame(id, d) ==
    [board |-> id, depth |-> d, pc |-> "entry", at |-> <<0, 0, 0, 0>>, retval |-> 0]

\* the arrays still referenced by an activation record (the caller keeps the first)
Live(h, st) ==
    LET ids == {st[i].board : i \in 1..Len(st)} \cup {1}
    IN  SubSeq(h, 1, CHOOSE n \in ids : \A m \in ids : m <= n)

\* the innermost call returns v to its caller
Return(v) ==
    IF Len(stack) = 1
    THEN /\ status' = "done"
         /\ result' = v
         /\ stack' = <<>>
         /\ heap' = Live(heap, <<>>)
    ELSE LET rest == SubSeq(stack, 1, Len(stack) - 1)
             caller == rest[Len(rest)]
             st == [rest EXCEPT ![Len(rest)].retval = caller.retval + v]
         IN  /\ stack' = st
             /\ heap' = Live(heap, st)
             /\ UNCHANGED <<status, result>>

Init ==
    /\ \E b \in Boards : heap = <<b>>
    /\ pieces \in PieceLists
    /\ stack = <<NewFrame(1, 0)>>
    /\ status = "running"
    /\ result = "none"
    /\ ev = NoEvent

\* lines 218-223: all pieces placed and the board holds FullCount nonzero cells
SolveSolution ==
    /\ status = "running"
    /\ Top.pc = "entry"
    /\ Top.depth = Len(pieces)
    /\ count_nonzero(heap[Top.board]) = FullCount
    /\ ev' = [op |-> "solution", board |-> heap[Top.board], depth |-> Top.depth,
              path |-> [i \in 1..(Len(stack) - 1) |-> stack[i].at]]
    /\ Return(1)
    /\ UNCHANGED pieces

\* line 225: pieces[depth] with depth = len(pieces) raises IndexError, which
\* nothing catches
SolveIndexError ==
    /\ status = "running"
    /\ Top.pc = "entry"
    /\ ~(Top.depth = Len(pieces) /\ count_nonzero(heap[Top.board]) = FullCount)
    /\ Top.depth >= Len(pieces)
    /\ status' = "error"
    /\ result' = "IndexError"
    /\ stack' = <<>>
    /\ heap' = Live(heap, <<>>)
    /\ ev' = [op |-> "raise", depth |-> Top.depth]
    /\ UNCHANGED pieces

\* line 225: pieces[depth] is there, the loops start
SolveBegin ==
    /\ status = "running"
    /\ Top.pc = "entry"
    /\ ~(Top.depth = Len(pieces) /\ count_nonzero(heap[Top.board]) = FullCount)
    /\ Top.depth < Len(pieces)
    /\ stack' = [stack EXCEPT ![Len(stack)].pc = "loop"]
    /\ ev' = [op |-> "begin", depth |-> Top.depth]
    /\ UNCHANGED <<heap, pieces, status, result>>

\* lines 225-232 and 243: the loops run on to the next iteration at which
\* fits is true, or to their end
Scan ==
    /\ status = "running"
    /\ Top.pc = "loop"
    /\ LET later == Fitting(heap[Top.board], pieces[Top.depth + 1], Top.at)
       IN  IF later = {}
           THEN stack' = [stack EXCEPT ![Len(stack)].pc = "end"]
           ELSE LET c == CHOOSE x \in later : \A y \in later : x = y \/ Before(x, y)
                IN  stack' = [stack EXCEPT ![Len(stack)].pc = "fit",
                                           ![Len(stack)].at = c]
    /\ ev' = [op |-> "scan", depth |-> Top.depth]
    /\ UNCHANGED <<heap, pieces, status, result>>

\* lines 234-237 at the iteration Top.at: the heap after fails returned, with
\* what the step saw
Placement ==
    LET board == heap[Top.board]
        c == Top.at
        piece == Orient(pieces[Top.depth + 1][c[1]], c[2])
        cp == np_copy(heap, Top.board)
        placed == [cp.h EXCEPT ![cp.id] = or_into(cp.h[cp.id], c[3], c[4], piece)]
        f == fails(placed, cp.id)
    IN  [piece |-> piece, id |-> cp.id, h |-> f.h, ret |-> f.ret,
         old |-> board, new |-> placed[cp.id], new_board |-> f.h[f.new_board]]

Seen(p, op) ==
    [op |-> op, depth |-> Top.depth, old |-> p.old, piece |-> p.piece, at |-> Top.at,
     new |-> p.new, kept |-> p.h[p.id], searched |-> p.h[Top.board],
     new_board |-> p.new_board]

\* lines 234-240: the new board is not dead: recurse
Place ==
    /\ status = "running"
    /\ Top.pc = "fit"
    /\ LET p == Placement
           st == Append([stack EXCEPT ![Len(stack)].pc = "loop"],
                        NewFrame(p.id, Top.depth + 1))
       IN  /\ ~p.ret
           /\ stack' = st
           /\ heap' = Live(p.h, st)
           /\ ev' = Seen(p, "place")
    /\ UNCHANGED <<pieces, status, result>>

\* lines 234-238: the new board is dead: pass
Prune ==
    /\ status = "running"
    /\ Top.pc = "fit"
    /\ LET p == Placement
           st == [stack EXCEPT ![Len(stack)].pc = "loop"]
       IN  /\ p.ret
           /\ stack' = st
           /\ heap' = Live(p.h, st)
           /\ ev' = Seen(p, "prune")
    /\ UNCHANGED <<pieces, status, result>>

\* line 245: the loops are over: return retval
SolveReturn ==
    /\ status = "running"
    /\ Top.pc = "end"
    /\ ev' = [op |-> "return", depth |-> Top.depth]
    /\ Return(Top.retval)
    /\ UNCHANGED pieces

Next ==
    \/ SolveSolution
    \/ SolveIndexError
    \/ SolveBegin
    \/ Scan
    \/ Place
    \/ Prune
    \/ SolveReturn

Spec == Init /\ [][Next]_vars

(***************************************************************************)
(* Vocabulary of the claims                                                *)
(***************************************************************************)
EmptyCells(board) == {rc \in Cells(board) : board[rc[1]][rc[2]] = 0}

Adjacent(p, q) ==
    \/ p[1] = q[1] /\ (p[2] = q[2] + 1 \/ q[2] = p[2] + 1)
    \/ p[2] = q[2] /\ (p[1] = q[1] + 1 \/ q[1] = p[1] + 1)

\* the maximal 4-connected set of empty cells around the set S of empty cells
RECURSIVE Grow(_, _)
Grow(board, S) ==
    LET more == {q \in EmptyCells(board) \ S : \E p \in S : Adjacent(p, q)}
    IN  IF more = {} THEN S ELSE Grow(board, S \cup more)

RegionOf(board, rc) == Grow(board, {rc})

HasRegionBelow(board, n) ==
    \E rc \in EmptyCells(board) : Cardinality(RegionOf(board, rc)) < n

\* the smallest cell count among the orientations of a piece list
MinPlaceableSize(ps) ==
    LET sizes == {count_nonzero(ps[i][j]) : i \in 1..Len(ps), j \in 1..2}
    IN  CHOOSE n \in sizes : \A m \in sizes : n <= m

Overlap(a, b) == \E rc \in Cells(a) : a[rc[1]][rc[2]] # 0 /\ b[rc[1]][rc[2]] # 0

(***************************************************************************)
(* C1: fits(region, orientation) is true exactly when no cell is nonzero   *)
(* in both arrays, and both arrays are as they were before the call.       *)
(***************************************************************************)
C1_FitsIffDisjoint ==
    (status = "done" /\ ev.op = "fits") =>
        /\ result = ~Overlap(ev.board, ev.piece)
        /\ heap = <<ev.board, ev.piece>>

\* a call on two arrays that share a cell holding different values
C1_Witness ==
    /\ status = "done" /\ ev.op = "fits"
    /\ result = FALSE
    /\ \E rc \in Cells(ev.board) :
          /\ ev.board[rc[1]][rc[2]] = 1
          /\ ev.piece[rc[1]][rc[2]] = 2

C7_FailsLeavesBoard ==
    (status = "done" /\ ev.op = "fails") => heap[1] = ev.board

\* a call whose flood fill wrote the sentinel into an empty cell of its copy
C7_Witness ==
    /\ status = "done" /\ ev.op = "fails"
    /\ \E rc \in EmptyCells(ev.board) : ev.new_board[rc[1]][rc[2]] = Sentinel
    /\ heap[1] = ev.board

(***************************************************************************)
(* Vocabulary of the claims about solve                                    *)
(***************************************************************************)
InitialBoard == heap[1]

Complete(board) == EmptyCells(board) = {}

\* the cells an orientation covers when its top-left corner is at (row, col)
Footprint(piece, row, col) ==
    {<<row + rc[1], col + rc[2]>> : rc \in {x \in Cells(piece) : piece[x[1]][x[2]] # 0}}

InBounds(board, piece, row, col) ==
    /\ row >= 0 /\ row + nrows(piece) <= nrows(board)
    /\ col >= 0 /\ col + ncols(piece) <= ncols(board)

\* the board with the orientation's cells written at the anchor
Put(board, piece, row, col) ==
    [r \in 1..nrows(board) |-> [c \in 1..ncols(board) |->
        IF <<r, c>> \in Footprint(piece, row, col) THEN piece[r - row][c - col]
        ELSE board[r][c]]]

\* the choices for one piece: a base shape, a rotation count and an in-bounds
\* anchor at which the orientation covers empty cells only
Choices(board, shapes) ==
    {c \in (1..Len(shapes)) \X (0..3) \X (0..(nrows(board) - 1)) \X (0..(ncols(board) - 1)) :
        LET piece == Orient(shapes[c[1]], c[2])
        IN  /\ InBounds(board, piece, c[3], c[4])
            /\ \A rc \in Footprint(piece, c[3], c[4]) : board[rc[1]][rc[2]] = 0}

\* the number of placement paths from the board, for the pieces after the
\* first d, that end on a complete board
RECURSIVE Paths(_, _, _), PathsOver(_, _, _, _)
Paths(board, ps, d) ==
    IF d >= Len(ps) THEN (IF Complete(board) THEN 1 ELSE 0)
    ELSE PathsOver(Choices(board, ps[d + 1]), board, ps, d)

PathsOver(S, board, ps, d) ==
    IF S = {} THEN 0
    ELSE LET c == CHOOSE x \in S : TRUE
             piece == Orient(ps[d + 1][c[1]], c[2])
         IN  Paths(Put(board, piece, c[3], c[4]), ps, d + 1)
                + PathsOver(S \ {c}, board, ps, d)

\* an empty cell whose four neighbours are occupied or off the board
Isolated(board, rc) ==
    /\ rc \in EmptyCells(board)
    /\ \A q \in EmptyCells(board) : ~Adjacent(rc, q)

(***************************************************************************)
(* C3: the count solve returns is the number of placement paths (for each  *)
(* piece in list order a base shape, a rotation and an in-bounds anchor    *)
(* accepted by fits) that reach a complete board.                          *)
(***************************************************************************)
C3_CountIsPaths ==
    status = "done" => result = Paths(InitialBoard, pieces, 0)

(***************************************************************************)
(* C4: solve is total: no call raises, and the outermost call returns a    *)
(* count that is not negative.                                             *)
(***************************************************************************)
C4_SolveTotal ==
    /\ status # "error"
    /\ status = "done" => result \in Nat

(***************************************************************************)
(* C5: on a complete board of any dimensions with an empty piece list,     *)
(* solve returns exactly 1.                                                *)
(***************************************************************************)
C5_CompleteBoardIsOne ==
    (Complete(InitialBoard) /\ pieces = <<>> /\ status # "running") =>
        (status = "done" /\ result = 1)

(***************************************************************************)
(* C6: on an initial board with a single empty cell, isolated by occupied  *)
(* cells or the border, fails is true and solve returns 0 without          *)
(* recursing, whatever the piece list.                                     *)
(***************************************************************************)
C6_IsolatedCellIsZero ==
    (\E rc \in Cells(InitialBoard) :
        EmptyCells(InitialBoard) = {rc} /\ Isolated(InitialBoard, rc)) =>
        /\ fails(<<InitialBoard>>, 1).ret
        /\ Len(stack) <= 1
        /\ (status # "running" => (status = "done" /\ result = 0))

(***************************************************************************)
(* C8: a board solve discards because fails was true has no completion to  *)
(* a solution by the remaining pieces, and the count solve returns is the  *)
(* count of the same search without the fails test.                        *)
(***************************************************************************)
\* solve without lines 237-239: whether it raises, and the count it returns
RECURSIVE Unpruned(_, _, _), UnprunedOver(_, _, _, _)
Unpruned(board, ps, d) ==
    IF d = Len(ps) /\ count_nonzero(board) = FullCount THEN [raised |-> FALSE, n |-> 1]
    ELSE IF d >= Len(ps) THEN [raised |-> TRUE, n |-> 0]
    ELSE UnprunedOver(Fitting(board, ps[d + 1], <<0, 0, 0, 0>>), board, ps, d)

UnprunedOver(S, board, ps, d) ==
    IF S = {} THEN [raised |-> FALSE, n |-> 0]
    ELSE LET c == CHOOSE x \in S : TRUE
             piece == Orient(ps[d + 1][c[1]], c[2])
             sub == Unpruned(or_into(board, c[3], c[4], piece), ps, d + 1)
             rest == UnprunedOver(S \ {c}, board, ps, d)
         IN  [raised |-> sub.raised \/ rest.raised, n |-> sub.n + rest.n]

C8_PruneSound ==
    /\ ev.op = "prune" => Paths(ev.new, pieces, ev.depth + 1) = 0
    /\ status = "done" =>
          LET u == Unpruned(InitialBoard, pieces, 0)
          IN  ~u.raised /\ u.n = result

(***************************************************************************)
(* C9: a placement makes a new board with as many more occupied cells as   *)
(* the orientation has nonzero cells; every cell that was occupied keeps   *)
(* its value and every newly occupied cell holds the piece's id.           *)
(***************************************************************************)
C9_PlacementAddsPiece ==
    ev.op \in {"place", "prune"} =>
        /\ count_nonzero(ev.new) = count_nonzero(ev.old) + count_nonzero(ev.piece)
        /\ \A rc \in Cells(ev.old) :
              /\ ev.old[rc[1]][rc[2]] # 0 => ev.new[rc[1]][rc[2]] = ev.old[rc[1]][rc[2]]
              /\ (ev.old[rc[1]][rc[2]] = 0 /\ ev.new[rc[1]][rc[2]] # 0) =>
                    /\ rc \in Footprint(ev.piece, ev.at[3], ev.at[4])
                    /\ ev.new[rc[1]][rc[2]] = ev.piece[rc[1] - ev.at[3]][rc[2] - ev.at[4]]
        /\ ev.searched = ev.old

\* a placement whose bounding box holds an occupied cell under a hole of the
\* orientation
C9_Witness ==
    /\ ev.op = "place"
    /\ \E rc \in Cells(ev.piece) :
          /\ ev.piece[rc[1]][rc[2]] = 0
          /\ ev.old[rc[1] + ev.at[3]][rc[2] + ev.at[4]] # 0

(***************************************************************************)
(* C10: a board solve counts as a solution is reached at depth             *)
(* len(pieces), has no empty cell, keeps every nonzero cell of the initial *)
(* board, and holds each piece once, as one of its orientations at an      *)
(* in-bounds anchor, no two pieces sharing a cell.                         *)
(***************************************************************************)
C10_SolutionIsExactCover ==
    ev.op = "solution" =>
        LET n == Len(ev.path)
            piece(i) == Orient(pieces[i][ev.path[i][1]], ev.path[i][2])
            cells(i) == Footprint(piece(i), ev.path[i][3], ev.path[i][4])
        IN  /\ ev.depth = Len(pieces)
            /\ n = Len(pieces)
            /\ Complete(ev.board)
            /\ \A rc \in Cells(InitialBoard) :
                  InitialBoard[rc[1]][rc[2]] # 0 =>
                      ev.board[rc[1]][rc[2]] = InitialBoard[rc[1]][rc[2]]
            /\ \A i \in 1..n :
                  /\ InBounds(ev.board, piece(i), ev.path[i][3], ev.path[i][4])
                  /\ \A rc \in cells(i) :
                        /\ InitialBoard[rc[1]][rc[2]] = 0
                        /\ ev.board[rc[1]][rc[2]] =
                              piece(i)[rc[1] - ev.path[i][3]][rc[2] - ev.path[i][4]]
            /\ \A i, j \in 1..n : i # j => cells(i) \cap cells(j) = {}

=============================================================================
